---- MODULE Spec2Model ----
(***************************************************************************)
(* Feature vectorization of claim records (src/preprocess.js): the bundle  *)
(* load, the schema normalizer, the categorical encoder, the scaler and    *)
(* the batch entry point that server.js calls, with the JavaScript value   *)
(* semantics they rest on (String(), Number(), ??, ||, regular-expression  *)
(* matching, IEEE overflow to Infinity).                                   *)
(*                                                                         *)
(* Unless a name carries a suffix, it models the module that starts at     *)
(* src/preprocess.js:70 ("preprocess v2"), the one whose exports server.js *)
(* imports.                                                                *)
(***************************************************************************)
EXTENDS Integers, Sequences, FiniteSets, TLC

VARIABLES
    pc,        \* "boot" | "serving" | "crashed": the module's load status
    file,      \* preprocessing_bundle.json as it is on disk
    BUNDLE,    \* the parsed bundle (module-level const), V_Undef before the load
    rows,      \* the argument of the last transformBatch call (the caller's array)
    X,         \* the outcome of the last transformBatch call
    first,     \* one earlier (record, vector) pair, kept for comparison
    arg,       \* input of the helper under test
    ret        \* its result

vars == <<pc, file, BUNDLE, rows, X, first, arg, ret>>

(***************************************************************************)
(* JavaScript values.  A string VALUE is a sequence of one-character       *)
(* strings, so that trimming, matching and parsing can look inside it.     *)
(* Property NAMES that the code spells out (raw.Provider, entry.mapping)   *)
(* and feature names are TLA+ strings; the keys of an encoder's mapping    *)
(* are string values, because they are compared with String(rawValue).     *)
(***************************************************************************)
V_Undef == [t |-> "undefined"]
V_Null == [t |-> "null"]
Str(s) == [t |-> "string", s |-> s]
Bool(b) == [t |-> "boolean", b |-> b]
Arr(a) == [t |-> "array", a |-> a]
Obj(p) == [t |-> "object", p |-> p]
EmptyMap == [k \in {} |-> V_Undef]
EmptyObj == Obj(EmptyMap)

(***************************************************************************)
(* Numbers.  A finite number is (n/d) * MAX_VALUE^e with e in {0,1}: e = 0 *)
(* is an ordinary rational, e = 1 a number of the order of                 *)
(* Number.MAX_VALUE (|n/d| <= 1), the range in which a double overflows.   *)
(* Rounding of ordinary rationals is not modelled.                         *)
(***************************************************************************)
Abs(i) == IF i < 0 THEN -i ELSE i
Sgn(i) == IF i < 0 THEN -1 ELSE IF i > 0 THEN 1 ELSE 0

RECURSIVE GCD(_, _)
GCD(a, b) == IF b = 0 THEN a ELSE GCD(b, a % b)

NaN == [t |-> "number", k |-> "nan"]
PInf == [t |-> "number", k |-> "pinf"]
NInf == [t |-> "number", k |-> "ninf"]
SignedInf(s) == IF s < 0 THEN NInf ELSE PInf

\* n/d in lowest terms with a positive denominator (d # 0).
Rat(n, d, e) ==
    LET g == GCD(Abs(n), Abs(d))
        s == IF d < 0 THEN -1 ELSE 1
    IN  [t |-> "number", k |-> "fin", n |-> (s * n) \div g, d |-> Abs(d) \div g,
         e |-> IF n = 0 THEN 0 ELSE e]
Fin(n, d) == Rat(n, d, 0)
Num(n) == Fin(n, 1)
\* (n/d) * Number.MAX_VALUE; beyond MAX_VALUE the double is an infinity.
Big(n, d) == IF Abs(n) > Abs(d) THEN SignedInf(Sgn(n) * Sgn(d)) ELSE Rat(n, d, 1)
MAX_VALUE == Big(1, 1)

NumSign(v) == IF v.k = "pinf" THEN 1 ELSE IF v.k = "ninf" THEN -1 ELSE Sgn(v.n)

\* a - b on numbers (IEEE: NaN absorbs, Infinity - Infinity is NaN; an
\* ordinary number is below the rounding unit of a MAX_VALUE-sized one).
Sub(a, b) ==
    IF a.k = "nan" \/ b.k = "nan" THEN NaN
    ELSE IF a.k # "fin" THEN (IF b.k = a.k THEN NaN ELSE a)
    ELSE IF b.k # "fin" THEN SignedInf(-NumSign(b))
    ELSE IF a.e = 0 /\ b.e = 0 THEN Fin(a.n * b.d - b.n * a.d, a.d * b.d)
    ELSE IF a.e = 1 /\ b.e = 0 THEN a
    ELSE IF a.e = 0 /\ b.e = 1 THEN Rat(-b.n, b.d, 1)
    ELSE Big(a.n * b.d - b.n * a.d, a.d * b.d)

\* a / b on numbers, for a finite ordinary divisor b (the scaler entries the
\* model draws); x/0 is +-Infinity or NaN as in IEEE.
Div(a, b) ==
    IF a.k = "nan" \/ b.k = "nan" THEN NaN
    ELSE IF b.k # "fin" THEN (IF a.k # "fin" THEN NaN ELSE Num(0))
    ELSE IF b.n = 0 THEN (IF NumSign(a) = 0 THEN NaN ELSE SignedInf(NumSign(a)))
    ELSE IF a.k # "fin" THEN SignedInf(NumSign(a) * NumSign(b))
    ELSE IF a.e = 0 THEN Fin(a.n * b.d, a.d * b.n)
    ELSE Big(a.n * b.d, a.d * b.n)

\* a > b for ordinary rationals a, b.
RatGt(a, b) == a.n * b.d > b.n * a.d

\* Math.abs(v) > c for an integer c >= 0.
AbsGt(v, c) ==
    IF v.k = "nan" THEN FALSE
    ELSE IF v.k # "fin" THEN TRUE
    ELSE IF v.e = 1 THEN TRUE
    ELSE Abs(v.n) > c * v.d

\* Math.max(a, b) for an ordinary rational a.
MathMax(a, b) ==
    IF b.k = "nan" THEN NaN
    ELSE IF b.k = "pinf" THEN PInf
    ELSE IF b.k = "ninf" THEN a
    ELSE IF b.e = 1 THEN (IF b.n > 0 THEN b ELSE a)
    ELSE IF RatGt(b, a) THEN b ELSE a

(***************************************************************************)
(* Characters and strings.                                                 *)
(***************************************************************************)
Digits == <<"0", "1", "2", "3", "4", "5", "6", "7", "8", "9">>
Lower == <<"a", "b", "c", "d", "e", "f", "g", "h", "i", "j", "k", "l", "m",
           "n", "o", "p", "q", "r", "s", "t", "u", "v", "w", "x", "y", "z">>
Upper == <<"A", "B", "C", "D", "E", "F", "G", "H", "I", "J", "K", "L", "M",
           "N", "O", "P", "Q", "R", "S", "T", "U", "V", "W", "X", "Y", "Z">>
Range(f) == {f[i] : i \in DOMAIN f}
IsDigit(c) == c \in Range(Digits)
IsLetter(c) == c \in Range(Lower) \cup Range(Upper)
\* \w of a regular expression
IsWordChar(c) == IsDigit(c) \/ IsLetter(c) \/ c = "_"
\* white space as String.prototype.trim and Number() see it
IsSpace(c) == c \in {" ", "\t", "\n"}
DigitVal(c) == (CHOOSE i \in DOMAIN Digits : Digits[i] = c) - 1
UpperChar(c) ==
    IF c \in Range(Lower) THEN Upper[CHOOSE i \in DOMAIN Lower : Lower[i] = c] ELSE c

\* String.prototype.toUpperCase
toUpperCase(s) == [i \in DOMAIN s |-> UpperChar(s[i])]

RECURSIVE TrimStart(_)
TrimStart(s) == IF s # <<>> /\ IsSpace(Head(s)) THEN TrimStart(Tail(s)) ELSE s
RECURSIVE TrimEnd(_)
TrimEnd(s) ==
    IF s # <<>> /\ IsSpace(s[Len(s)]) THEN TrimEnd(SubSeq(s, 1, Len(s) - 1)) ELSE s
\* String.prototype.trim
StrTrim(s) == TrimEnd(TrimStart(s))

\* s.replace(/[^\d.]/g, ""): keep digits and dots.
StripNonNumeric(s) == SelectSeq(s, LAMBDA c : IsDigit(c) \/ c = ".")

S_Unknown == <<"U", "n", "k", "n", "o", "w", "n">>
S_UNK == <<"_", "_", "U", "N", "K", "_", "_">>
S_Zeros == <<"0", "0", "0", "0", "0">>
S_Infinity == <<"I", "n", "f", "i", "n", "i", "t", "y">>
S_ObjectObject ==
    <<"[", "o", "b", "j", "e", "c", "t", " ", "O", "b", "j", "e", "c", "t", "]">>
S_MaxValue ==
    <<"1", ".", "7", "9", "7", "6", "9", "3", "1", "3", "4", "8", "6", "2", "3", "1",
      "5", "7", "e", "+", "3", "0", "8">>

\* the decimal digits of a natural number
RECURSIVE NatDigits(_)
NatDigits(n) ==
    IF n < 10 THEN <<Digits[n + 1]>> ELSE Append(NatDigits(n \div 10), Digits[(n % 10) + 1])

\* the digits after the decimal point of r/d (0 <= r < d), for a fraction
\* whose expansion ends (d divides a power of ten)
RECURSIVE FracDigits(_, _)
FracDigits(r, d) ==
    IF r = 0 THEN <<>>
    ELSE <<Digits[((10 * r) \div d) + 1]>> \o FracDigits((10 * r) % d, d)

\* Number.prototype.toString for the numbers the model draws: an ordinary
\* rational with a finite expansion below 1e21, +-MAX_VALUE, NaN, +-Infinity.
NumToString(v) ==
    IF v.k = "nan" THEN <<"N", "a", "N">>
    ELSE IF v.k = "pinf" THEN S_Infinity
    ELSE IF v.k = "ninf" THEN <<"-">> \o S_Infinity
    ELSE LET sign == IF v.n < 0 THEN <<"-">> ELSE <<>>
             a == Abs(v.n)
         IN  CASE v.e = 1 /\ a = 1 /\ v.d = 1 -> sign \o S_MaxValue
               [] v.e = 0 /\ v.d = 1 -> sign \o NatDigits(a)
               [] v.e = 0 /\ v.d > 1 /\ 1000000 % v.d = 0 ->
                    sign \o NatDigits(a \div v.d) \o <<".">> \o FracDigits(a % v.d, v.d)

RECURSIVE DigitsVal(_)
DigitsVal(s) == IF s = <<>> THEN 0 ELSE 10 * DigitsVal(SubSeq(s, 1, Len(s) - 1)) + DigitVal(s[Len(s)])

RECURSIVE Pow10(_)
Pow10(k) == IF k = 0 THEN 1 ELSE 10 * Pow10(k - 1)

\* an unsigned decimal literal without exponent: digits, digits., digits.digits, .digits
IsDecimal(s) ==
    /\ \E i \in DOMAIN s : IsDigit(s[i])
    /\ Cardinality({i \in DOMAIN s : s[i] = "."}) <= 1
    /\ \A i \in DOMAIN s : IsDigit(s[i]) \/ s[i] = "."
DecimalVal(s) ==
    LET dot == IF \E i \in DOMAIN s : s[i] = "." THEN CHOOSE i \in DOMAIN s : s[i] = "."
               ELSE Len(s) + 1
        ip == SubSeq(s, 1, dot - 1)
        fp == SubSeq(s, dot + 1, Len(s))
    IN  Fin(DigitsVal(ip) * Pow10(Len(fp)) + DigitsVal(fp), Pow10(Len(fp)))

\* Number(string) (StringToNumber): white space trimmed, "" is 0, an optional
\* sign, a decimal literal or Infinity; anything else is NaN.  Exponent, hex,
\* octal and binary literals are not modelled (no drawn string is one).
StringToNumber(str) ==
    LET s == StrTrim(str)
        neg == s # <<>> /\ Head(s) = "-"
        body == IF s # <<>> /\ Head(s) \in {"-", "+"} THEN Tail(s) ELSE s
    IN  IF s = <<>> THEN Num(0)
        ELSE IF body = S_Infinity THEN (IF neg THEN NInf ELSE PInf)
        ELSE IF IsDecimal(body)
             THEN (IF neg THEN Sub(Num(0), DecimalVal(body)) ELSE DecimalVal(body))
        ELSE NaN

RECURSIVE JoinSeq(_)
JoinSeq(ss) ==
    IF ss = <<>> THEN <<>>
    ELSE IF Len(ss) = 1 THEN ss[1]
    ELSE ss[1] \o <<",">> \o JoinSeq(Tail(ss))

\* String(v)
RECURSIVE ToStr(_)
ToStr(v) ==
    CASE v.t = "string" -> v.s
      [] v.t = "number" -> NumToString(v)
      [] v.t = "boolean" -> IF v.b THEN <<"t", "r", "u", "e">> ELSE <<"f", "a", "l", "s", "e">>
      [] v.t = "null" -> <<"n", "u", "l", "l">>
      [] v.t = "undefined" -> <<"u", "n", "d", "e", "f", "i", "n", "e", "d">>
      [] v.t = "object" -> S_ObjectObject
      [] v.t = "array" ->
            JoinSeq([i \in DOMAIN v.a |->
                        IF v.a[i].t \in {"null", "undefined"} THEN <<>> ELSE ToStr(v.a[i])])

\* Number(v)
ToNumber(v) ==
    CASE v.t = "number" -> v
      [] v.t = "string" -> StringToNumber(v.s)
      [] v.t = "boolean" -> IF v.b THEN Num(1) ELSE Num(0)
      [] v.t = "null" -> Num(0)
      [] v.t = "undefined" -> NaN
      [] v.t = "object" -> NaN
      [] v.t = "array" -> StringToNumber(ToStr(v))

\* ToBoolean(v), as || and if() use it
Truthy(v) ==
    CASE v.t \in {"undefined", "null"} -> FALSE
      [] v.t = "boolean" -> v.b
      [] v.t = "string" -> v.s # <<>>
      [] v.t = "number" -> ~(v.k = "nan" \/ (v.k = "fin" /\ v.n = 0))
      [] OTHER -> TRUE

\* a ?? b and a || b
Nullish(v) == v.t \in {"undefined", "null"}
Coalesce(a, b) == IF Nullish(a) THEN b ELSE a
Or(a, b) == IF Truthy(a) THEN a ELSE b

\* v.name for a name the code spells out; undefined when absent.  (On null
\* and undefined the access throws: the callers test CanRead first.)
CanRead(v) == ~Nullish(v)
Get(v, name) == IF v.t = "object" /\ name \in DOMAIN v.p THEN v.p[name] ELSE V_Undef

\* Number.isFinite(x)
NumberIsFinite(x) == x.t = "number" /\ x.k = "fin"


(***************************************************************************)
(* preprocess.js (v2), lines 84-112: module constants and helpers.         *)
(***************************************************************************)
\* SELECTED_FEATURES.length and SELECTED_FEATURES[i] are read of an array of
\* feature names; the bundles drawn hold an array, null or nothing there.
SELECTED_FEATURES == Or(Get(BUNDLE, "selected_features"), Arr(<<>>))
LABEL_MAPS == Or(Get(BUNDLE, "label_encoders"), EmptyObj)
SCALER == Or(Get(BUNDLE, "scaler"), Obj([k \in {"mean_", "scale_"} |-> V_Null]))

trim(s) == Str(StrTrim(ToStr(Coalesce(s, Str(<<>>)))))
isFiniteNum(x) == x.t = "number" /\ NumberIsFinite(x)
toNum(v) ==
    IF isFiniteNum(v) THEN v
    ELSE IF NumberIsFinite(ToNumber(v)) THEN ToNumber(v) ELSE Num(0)

\* [0-9A-Z.]* matched greedily from position j: the position after the match
RECURSIVE ICDTail(_, _)
ICDTail(s, j) ==
    IF j <= Len(s) /\ (IsDigit(s[j]) \/ IsLetter(s[j]) \/ s[j] = ".")
    THEN ICDTail(s, j + 1) ELSE j
\* /[A-Z][0-9][0-9A-Z.]*/i tried at position i
ICDMatchesAt(s, i) == i + 1 <= Len(s) /\ IsLetter(s[i]) /\ IsDigit(s[i + 1])
\* s.match(re)?.[0] for the leftmost position that matches, else undefined
RECURSIVE ICDScan(_, _)
ICDScan(s, i) ==
    IF i > Len(s) THEN V_Undef
    ELSE IF ICDMatchesAt(s, i) THEN Str(SubSeq(s, i, ICDTail(s, i + 2) - 1))
    ELSE ICDScan(s, i + 1)
onlyICD(s) == Str(toUpperCase(Or(ICDScan(trim(s).s, 1), Str(S_Unknown)).s))

\* a boundary that only asks for a non-digit neighbour
WordBoundary_digitOnly(s, i) ==
    (i - 1 >= 1 /\ IsDigit(s[i - 1])) # (i <= Len(s) /\ IsDigit(s[i]))

\* \b at the gap before position i (between s[i-1] and s[i])
WordBoundary(s, i) ==
    (i - 1 >= 1 /\ IsWordChar(s[i - 1])) # (i <= Len(s) /\ IsWordChar(s[i]))
\* /\b\d{5}\b/ tried at position i
CPTMatchesAt(s, i) ==
    /\ i + 4 <= Len(s)
    /\ WordBoundary(s, i)
    /\ \A k \in i .. i + 4 : IsDigit(s[k])
    /\ WordBoundary(s, i + 5)
RECURSIVE CPTScan(_, _)
CPTScan(s, i) ==
    IF i > Len(s) THEN V_Undef
    ELSE IF CPTMatchesAt(s, i) THEN Str(SubSeq(s, i, i + 4))
    ELSE CPTScan(s, i + 1)
onlyCPT(s) == Or(CPTScan(trim(s).s, 1), Str(S_Zeros))

\* Object.prototype.hasOwnProperty.call(mapping, key), and mapping[key]
HasOwn(mapping, key) == mapping.t = "object" /\ key \in DOMAIN mapping.p
At(mapping, key) == IF HasOwn(mapping, key) THEN mapping.p[key] ELSE V_Undef

\* the key a raw value is looked up under (lines 104-106)
EncodeKey(rawValue) ==
    IF Nullish(rawValue) \/ (rawValue.t = "string" /\ rawValue.s = <<>>)
    THEN S_Unknown ELSE ToStr(rawValue)

\* encodeCategorical trying the sentinel key before unknown_index
encodeCategorical_sentinelFirst(colName, rawValue) ==
    LET entry == Get(LABEL_MAPS, colName)
        mapping == Or(Get(entry, "mapping"), EmptyObj)
        unknownIdx == Coalesce(Get(entry, "unknown_index"), V_Null)
        key == EncodeKey(rawValue)
    IN  IF ~Truthy(entry) THEN V_Null
        ELSE IF HasOwn(mapping, key) THEN At(mapping, key)
        ELSE IF HasOwn(mapping, S_UNK) THEN At(mapping, S_UNK)
        ELSE IF ~Nullish(unknownIdx) THEN unknownIdx
        ELSE Num(0)

encodeCategorical(colName, rawValue) ==
    LET entry == Get(LABEL_MAPS, colName)
        mapping == Or(Get(entry, "mapping"), EmptyObj)
        unknownIdx == Coalesce(Get(entry, "unknown_index"), V_Null)
        key == EncodeKey(rawValue)
    IN  IF ~Truthy(entry) THEN V_Null
        ELSE IF HasOwn(mapping, key) THEN At(mapping, key)
        ELSE IF ~Nullish(unknownIdx) THEN unknownIdx
        ELSE IF HasOwn(mapping, S_UNK) THEN At(mapping, S_UNK)
        ELSE Num(0)


(***************************************************************************)
(* preprocess.js (v2), lines 115-180: the schema normalizer.  raw is read  *)
(* with raw.<name>, which throws a TypeError on null and undefined.        *)
(***************************************************************************)
normalizeThrows(raw) == ~CanRead(raw)

normalizeToTraining(raw) ==
    LET U == Str(S_Unknown)
        provider == Coalesce(Get(raw, "Provider"), trim(Get(raw, "provider_id")))
        diag == Coalesce(Get(raw, "ClmDiagnosisCode_1"), onlyICD(Get(raw, "diagnosis_code")))
        proc == Coalesce(Get(raw, "ClmProcedureCode_1"), onlyCPT(Get(raw, "procedure_code")))
        loc == Coalesce(Get(raw, "DiagnosisGroupCode"), trim(Get(raw, "service_location")))
    IN  [ Provider |-> Or(provider, U),
          InscClaimAmtReimbursed |->
              toNum(Coalesce(Get(raw, "InscClaimAmtReimbursed"),
                             Str(StripNonNumeric(ToStr(Coalesce(Get(raw, "claim_amount"), Num(0))))))),
          AttendingPhysician |->
              Coalesce(Get(raw, "AttendingPhysician"), Or(trim(Get(raw, "referring_physician")), U)),
          OperatingPhysician |-> Coalesce(Get(raw, "OperatingPhysician"), U),
          OtherPhysician |-> Coalesce(Get(raw, "OtherPhysician"), U),
          ClmAdmitDiagnosisCode |-> Coalesce(Get(raw, "ClmAdmitDiagnosisCode"), diag),
          DeductibleAmtPaid |->
              toNum(Coalesce(Coalesce(Get(raw, "DeductibleAmtPaid"), Get(raw, "deductible_amount")), Num(0))),
          DiagnosisGroupCode |-> Or(loc, U),

          ClmDiagnosisCode_1 |-> diag,
          ClmDiagnosisCode_2 |-> Coalesce(Get(raw, "ClmDiagnosisCode_2"), U),
          ClmDiagnosisCode_3 |-> Coalesce(Get(raw, "ClmDiagnosisCode_3"), U),
          ClmDiagnosisCode_4 |-> Coalesce(Get(raw, "ClmDiagnosisCode_4"), U),
          ClmDiagnosisCode_5 |-> Coalesce(Get(raw, "ClmDiagnosisCode_5"), U),
          ClmDiagnosisCode_6 |-> Coalesce(Get(raw, "ClmDiagnosisCode_6"), U),
          ClmDiagnosisCode_7 |-> Coalesce(Get(raw, "ClmDiagnosisCode_7"), U),
          ClmDiagnosisCode_8 |-> Coalesce(Get(raw, "ClmDiagnosisCode_8"), U),
          ClmDiagnosisCode_9 |-> Coalesce(Get(raw, "ClmDiagnosisCode_9"), U),
          ClmDiagnosisCode_10 |-> Coalesce(Get(raw, "ClmDiagnosisCode_10"), U),

          ClmProcedureCode_1 |-> proc,
          ClmProcedureCode_2 |-> Coalesce(Get(raw, "ClmProcedureCode_2"), U),
          ClmProcedureCode_3 |-> Coalesce(Get(raw, "ClmProcedureCode_3"), U),
          ClmProcedureCode_4 |-> Coalesce(Get(raw, "ClmProcedureCode_4"), U),
          ClmProcedureCode_5 |-> Coalesce(Get(raw, "ClmProcedureCode_5"), U),

          Gender |-> Coalesce(Get(raw, "Gender"), Coalesce(Get(raw, "gender"), U)),
          Race |-> Coalesce(Get(raw, "Race"), Coalesce(Get(raw, "race"), U)),
          RenalDiseaseIndicator |->
              Coalesce(Get(raw, "RenalDiseaseIndicator"), Coalesce(Get(raw, "renal"), U)),
          State |-> Coalesce(Get(raw, "State"), Coalesce(Get(raw, "state"), U)),
          County |-> Coalesce(Get(raw, "County"), Coalesce(Get(raw, "county"), U)),

          NoOfMonths_PartACov |-> toNum(Coalesce(Get(raw, "NoOfMonths_PartACov"), Num(12))),
          NoOfMonths_PartBCov |-> toNum(Coalesce(Get(raw, "NoOfMonths_PartBCov"), Num(12))),

          ChronicCond_Alzheimer |-> toNum(Coalesce(Get(raw, "ChronicCond_Alzheimer"), Num(0))),
          ChronicCond_Heartfailure |-> toNum(Coalesce(Get(raw, "ChronicCond_Heartfailure"), Num(0))),
          ChronicCond_KidneyDisease |-> toNum(Coalesce(Get(raw, "ChronicCond_KidneyDisease"), Num(0))),
          ChronicCond_Cancer |-> toNum(Coalesce(Get(raw, "ChronicCond_Cancer"), Num(0))),
          ChronicCond_ObstrPulmonary |-> toNum(Coalesce(Get(raw, "ChronicCond_ObstrPulmonary"), Num(0))),
          ChronicCond_Depression |-> toNum(Coalesce(Get(raw, "ChronicCond_Depression"), Num(0))),
          ChronicCond_Diabetes |-> toNum(Coalesce(Get(raw, "ChronicCond_Diabetes"), Num(0))),
          ChronicCond_IschemicHeart |-> toNum(Coalesce(Get(raw, "ChronicCond_IschemicHeart"), Num(0))),
          ChronicCond_Osteoporasis |-> toNum(Coalesce(Get(raw, "ChronicCond_Osteoporasis"), Num(0))),
          ChronicCond_rheumatoidarthritis |->
              toNum(Coalesce(Get(raw, "ChronicCond_rheumatoidarthritis"), Num(0))),
          ChronicCond_stroke |-> toNum(Coalesce(Get(raw, "ChronicCond_stroke"), Num(0))),

          IPAnnualReimbursementAmt |-> toNum(Coalesce(Get(raw, "IPAnnualReimbursementAmt"), Num(0))),
          IPAnnualDeductibleAmt |-> toNum(Coalesce(Get(raw, "IPAnnualDeductibleAmt"), Num(0))),
          OPAnnualReimbursementAmt |-> toNum(Coalesce(Get(raw, "OPAnnualReimbursementAmt"), Num(0))),
          OPAnnualDeductibleAmt |-> toNum(Coalesce(Get(raw, "OPAnnualDeductibleAmt"), Num(0))),

          AgeAtClaim |-> toNum(Coalesce(Coalesce(Get(raw, "AgeAtClaim"), Get(raw, "patient_age")), Num(0))),
          ClaimDuration |->
              toNum(Coalesce(Get(raw, "ClaimDuration"),
                             MathMax(Num(1), ToNumber(Coalesce(Get(raw, "service_frequency"), Num(1)))))),
          ClaimsPerProvider |-> toNum(Coalesce(Get(raw, "ClaimsPerProvider"), Num(1))),
          ClaimsPerBene |-> toNum(Coalesce(Get(raw, "ClaimsPerBene"), Num(1))) ]

\* normalized[col]: undefined for a name the normalizer does not produce
Field(normalized, col) == IF col \in DOMAIN normalized THEN normalized[col] ELSE V_Undef

(***************************************************************************)
(* preprocess.js (v2), lines 183-218: encode, scale, batch.                *)
(***************************************************************************)
\* encodeRow with the loop stopping one feature early
encodeRow_short(raw) ==
    LET normalized == normalizeToTraining(raw)
        F == SELECTED_FEATURES.a
    IN  [i \in 1 .. Len(F) - 1 |->
            IF Truthy(Get(LABEL_MAPS, F[i]))
            THEN encodeCategorical(F[i], Field(normalized, F[i]))
            ELSE toNum(Field(normalized, F[i]))]

\* lines 185-195: the row before scaling
\* lines 186-195: the loop over the features, on the normalized record
encodeNormalized(normalized) ==
    LET F == SELECTED_FEATURES.a
    IN  [i \in 1 .. Len(F) |->
            IF Truthy(Get(LABEL_MAPS, F[i]))
            THEN encodeCategorical(F[i], Field(normalized, F[i]))
            ELSE toNum(Field(normalized, F[i]))]

encodeRow(raw) == encodeNormalized(normalizeToTraining(raw))

IsArray(v) == v.t = "array"

\* lines 198-203: the scaler is applied to a row of this length
scalerApplies(n) ==
    /\ IsArray(Get(SCALER, "mean_"))
    /\ IsArray(Get(SCALER, "scale_"))
    /\ Len(Get(SCALER, "mean_").a) = n
    /\ Len(Get(SCALER, "scale_").a) = n

\* scaleSkips without the test for a zero scale
scaleSkips_noZeroTest(m, s) == ~NumberIsFinite(m) \/ ~NumberIsFinite(s)

\* line 207: the positions that are left alone
scaleSkips(m, s) ==
    ~NumberIsFinite(m) \/ ~NumberIsFinite(s) \/ (s.t = "number" /\ s = Num(0))

\* lines 204-209
scaleRow(out) ==
    IF scalerApplies(Len(out))
    THEN [i \in 1 .. Len(out) |->
            LET m == Get(SCALER, "mean_").a[i]
                s == Get(SCALER, "scale_").a[i]
            IN  IF scaleSkips(m, s) THEN out[i] ELSE Div(Sub(ToNumber(out[i]), m), s)]
    ELSE out

transformOne(raw) == scaleRow(encodeRow(raw))



\* the outcome of a call: a returned value or a thrown error
Returned(v) == [st |-> "returned", value |-> v]
Threw(e) == [st |-> "threw", error |-> e]
NoCall == [st |-> "none"]

(***************************************************************************)
(* preprocess.js, first copy (v1), lines 15-68: no normalizer, no sentinel *)
(* key.                                                                    *)
(***************************************************************************)
isNumber(x) == x.t = "number" /\ NumberIsFinite(x)
toNumberOrZero(v) ==
    IF isNumber(v) THEN v
    ELSE IF NumberIsFinite(ToNumber(v)) THEN ToNumber(v) ELSE Num(0)

encodeCategorical_v1(colName, rawValue) ==
    LET entry == Get(LABEL_MAPS, colName)
        mapping == Or(Get(entry, "mapping"), EmptyObj)
        unknownIdx == Coalesce(Get(entry, "unknown_index"), V_Null)
        key == EncodeKey(rawValue)
    IN  IF ~Truthy(entry) THEN V_Null
        ELSE IF HasOwn(mapping, key) THEN At(mapping, key)
        ELSE IF ~Nullish(unknownIdx) THEN unknownIdx
        ELSE Num(0)

\* raw?.[col]: undefined on null and undefined instead of a TypeError
OptGet(raw, col) == IF Nullish(raw) THEN V_Undef ELSE Get(raw, col)

\* lines 33-61; the scaling block is the one of v2
transformOne_v1(raw) ==
    LET F == SELECTED_FEATURES.a
    IN  scaleRow([i \in 1 .. Len(F) |->
                    IF Truthy(Get(LABEL_MAPS, F[i]))
                    THEN encodeCategorical_v1(F[i], OptGet(raw, F[i]))
                    ELSE toNumberOrZero(OptGet(raw, F[i]))])

(***************************************************************************)
(* transformer.js, lines 220-338: normalizer of the caller-facing names,   *)
(* per-position scaling of the numeric columns, and the sanity guard.      *)
(***************************************************************************)
FEATURES == Get(BUNDLE, "selected_features")
ENCODERS == Or(Get(BUNDLE, "label_encoders"), EmptyObj)
SCALER_t == Or(Get(BUNDLE, "scaler"), EmptyObj)
MEAN_ == Or(Get(SCALER_t, "mean_"), Arr(<<>>))
SCALE_ == Or(Get(SCALER_t, "scale_"), Arr(<<>>))

\* arr[idx] for the idx-th position (counted from 1 here): undefined past the end
ElemAt(arr, idx) == IF arr.t = "array" /\ idx \in DOMAIN arr.a THEN arr.a[idx] ELSE V_Undef

\* "name" in obj, for an object parsed from JSON and a name it does not inherit
HasKey(obj, name) == obj.t = "object" /\ name \in DOMAIN obj.p

\* lines 236-245
encode(col, val) ==
    LET enc == Get(ENCODERS, col)
        key == EncodeKey(val)
    IN  IF ~Truthy(enc) \/ ~Truthy(Get(enc, "mapping")) THEN Num(0)
        ELSE IF HasOwn(Get(enc, "mapping"), key) THEN At(Get(enc, "mapping"), key)
        ELSE IF HasKey(enc, "unknown_index") THEN Get(enc, "unknown_index")
        ELSE IF HasOwn(Get(enc, "mapping"), S_UNK) THEN At(Get(enc, "mapping"), S_UNK)
        ELSE Num(0)

\* lines 248-255
scaleByIndex(idx, val) ==
    LET m == ElemAt(MEAN_, idx)
        s == ElemAt(SCALE_, idx)
    IN  IF m.t = "null" \/ s.t = "null" \/ (s.t = "number" /\ s = Num(0)) \/ s.t = "undefined"
        THEN Or(ToNumber(val), Num(0))
        ELSE Div(Sub(ToNumber(val), ToNumber(m)), ToNumber(s))

\* lines 258-317
normalizeToTraining_t(raw) ==
    LET U == Str(S_Unknown)
    IN  [ Provider |-> trim(Get(raw, "provider_id")),
          InscClaimAmtReimbursed |->
              ToNumber(Str(StripNonNumeric(ToStr(Or(Get(raw, "claim_amount"), Num(0)))))),
          AttendingPhysician |-> Or(trim(Get(raw, "referring_physician")), U),
          OperatingPhysician |-> U,
          OtherPhysician |-> U,
          ClmAdmitDiagnosisCode |-> onlyICD(Get(raw, "diagnosis_code")),
          DeductibleAmtPaid |-> Or(ToNumber(Get(raw, "deductible_amount")), Num(0)),
          DiagnosisGroupCode |-> Or(trim(Get(raw, "service_location")), U),

          ClmDiagnosisCode_1 |-> onlyICD(Get(raw, "diagnosis_code")),
          ClmDiagnosisCode_2 |-> U,
          ClmDiagnosisCode_3 |-> U,
          ClmDiagnosisCode_4 |-> U,
          ClmDiagnosisCode_5 |-> U,
          ClmDiagnosisCode_6 |-> U,
          ClmDiagnosisCode_7 |-> U,
          ClmDiagnosisCode_8 |-> U,
          ClmDiagnosisCode_9 |-> U,
          ClmDiagnosisCode_10 |-> U,

          ClmProcedureCode_1 |-> onlyCPT(Get(raw, "procedure_code")),
          ClmProcedureCode_2 |-> U,
          ClmProcedureCode_3 |-> U,
          ClmProcedureCode_4 |-> U,
          ClmProcedureCode_5 |-> U,

          Gender |-> Coalesce(Get(raw, "gender"), U),
          Race |-> Coalesce(Get(raw, "race"), U),
          RenalDiseaseIndicator |-> Coalesce(Get(raw, "renal"), U),
          State |-> Coalesce(Get(raw, "state"), U),
          County |-> Coalesce(Get(raw, "county"), U),

          NoOfMonths_PartACov |-> ToNumber(Coalesce(Get(raw, "NoOfMonths_PartACov"), Num(12))),
          NoOfMonths_PartBCov |-> ToNumber(Coalesce(Get(raw, "NoOfMonths_PartBCov"), Num(12))),

          ChronicCond_Alzheimer |-> ToNumber(Coalesce(Get(raw, "ChronicCond_Alzheimer"), Num(0))),
          ChronicCond_Heartfailure |-> ToNumber(Coalesce(Get(raw, "ChronicCond_Heartfailure"), Num(0))),
          ChronicCond_KidneyDisease |-> ToNumber(Coalesce(Get(raw, "ChronicCond_KidneyDisease"), Num(0))),
          ChronicCond_Cancer |-> ToNumber(Coalesce(Get(raw, "ChronicCond_Cancer"), Num(0))),
          ChronicCond_ObstrPulmonary |->
              ToNumber(Coalesce(Get(raw, "ChronicCond_ObstrPulmonary"), Num(0))),
          ChronicCond_Depression |-> ToNumber(Coalesce(Get(raw, "ChronicCond_Depression"), Num(0))),
          ChronicCond_Diabetes |-> ToNumber(Coalesce(Get(raw, "ChronicCond_Diabetes"), Num(0))),
          ChronicCond_IschemicHeart |->
              ToNumber(Coalesce(Get(raw, "ChronicCond_IschemicHeart"), Num(0))),
          ChronicCond_Osteoporasis |-> ToNumber(Coalesce(Get(raw, "ChronicCond_Osteoporasis"), Num(0))),
          ChronicCond_rheumatoidarthritis |->
              ToNumber(Coalesce(Get(raw, "ChronicCond_rheumatoidarthritis"), Num(0))),
          ChronicCond_stroke |-> ToNumber(Coalesce(Get(raw, "ChronicCond_stroke"), Num(0))),

          IPAnnualReimbursementAmt |->
              ToNumber(Coalesce(Get(raw, "IPAnnualReimbursementAmt"), Num(0))),
          IPAnnualDeductibleAmt |-> ToNumber(Coalesce(Get(raw, "IPAnnualDeductibleAmt"), Num(0))),
          OPAnnualReimbursementAmt |->
              ToNumber(Coalesce(Get(raw, "OPAnnualReimbursementAmt"), Num(0))),
          OPAnnualDeductibleAmt |-> ToNumber(Coalesce(Get(raw, "OPAnnualDeductibleAmt"), Num(0))),

          AgeAtClaim |-> ToNumber(Coalesce(Get(raw, "patient_age"), Num(0))),
          ClaimDuration |->
              MathMax(Num(1), ToNumber(Coalesce(Get(raw, "service_frequency"), Num(1)))),
          ClaimsPerProvider |-> ToNumber(Coalesce(Get(raw, "ClaimsPerProvider"), Num(1))),
          ClaimsPerBene |-> ToNumber(Coalesce(Get(raw, "ClaimsPerBene"), Num(1))) ]

\* line 333: Number.isNaN(v) || Math.abs(v) > 50
MismatchThreshold == 50
isBad(v) ==
    (v.t = "number" /\ v.k = "nan")
    \/ (ToNumber(v).k # "nan" /\ AbsGt(ToNumber(v), MismatchThreshold))

\* lines 323-330: the row before the sanity guard, from the normalized record
buildRowOf(named) ==
    [idx \in DOMAIN FEATURES.a |->
        IF Truthy(Get(Get(ENCODERS, FEATURES.a[idx]), "mapping"))
        THEN encode(FEATURES.a[idx], Field(named, FEATURES.a[idx]))
        ELSE scaleByIndex(idx, Field(named, FEATURES.a[idx]))]

buildRow(raw) == buildRowOf(normalizeToTraining_t(raw))

\* lines 332-335: the sanity guard on a finished row
guardRow(row) ==
    IF \E idx \in DOMAIN row : isBad(row[idx])
    THEN Threw("preprocessing_mismatch: check encoder mappings & scaler arrays.")
    ELSE Returned(row)

\* lines 319-336, as an outcome: read of raw.provider_id on null and
\* FEATURES.map on a missing list throw a TypeError
buildVector(raw) ==
    IF ~CanRead(raw) \/ ~CanRead(FEATURES) THEN Threw("TypeError")
    ELSE guardRow(buildRow(raw))

\* transformBatch writing every row into one shared output array
transformBatch_shared(rs) ==
    IF ~IsArray(rs) THEN Threw("transformBatch expects an array of objects")
    ELSE IF \E i \in DOMAIN rs.a : normalizeThrows(rs.a[i]) THEN Threw("TypeError")
    ELSE Returned([i \in DOMAIN rs.a |-> transformOne(rs.a[Len(rs.a)])])

\* lines 215-218; rows.map(transformOne) stops at the first row that throws
transformBatch(rs) ==
    IF ~IsArray(rs) THEN Threw("transformBatch expects an array of objects")
    ELSE IF \E i \in DOMAIN rs.a : normalizeThrows(rs.a[i]) THEN Threw("TypeError")
    ELSE Returned([i \in DOMAIN rs.a |-> transformOne(rs.a[i])])

(***************************************************************************)
(* Inputs: bundles on disk and raw records.                                *)
(***************************************************************************)
MaxBatch == 2

S_A == <<"A">>
S_B == <<"B">>
S_C == <<"C">>

\* encoder mappings and entries for one categorical column
MapAB == (S_A :> Num(0)) @@ (S_B :> Num(1))
Mappings ==
    { EmptyMap, MapAB, MapAB @@ (S_Unknown :> Num(3)), MapAB @@ (S_UNK :> Num(4)),
      MapAB @@ (S_Unknown :> Num(3)) @@ (S_UNK :> Num(4)) }
Entries ==
    {Obj(("mapping" :> Obj(m)) @@ ("unknown_index" :> u)) : m \in Mappings, u \in {Num(2), V_Null}}
    \cup {Obj("mapping" :> Obj(m)) : m \in Mappings}
    \cup {Obj("unknown_index" :> Num(2)), EmptyObj}

\* scaler arrays for two features
Means ==
    { V_Undef, V_Null, Arr(<<Num(10)>>), Arr(<<Num(10), V_Null>>), Arr(<<Num(0), Num(0)>>),
      Arr(<<Num(10), Num(5)>>), Arr(<<Str(<<"1", "0">>), PInf>>),
      Arr(<<Num(10), Num(5), Num(1)>>) }
Scales ==
    { V_Undef, V_Null, Arr(<<Num(2)>>), Arr(<<Num(2), Num(0)>>), Arr(<<Fin(1, 2), Num(1)>>),
      Arr(<<Num(4), Num(-5)>>), Arr(<<Num(2), V_Null>>),
      Arr(<<Num(2), Num(5), Num(1)>>) }
WithOpt(name, v) == IF v = V_Undef THEN EmptyMap ELSE (name :> v)
Scalers == {Obj(WithOpt("mean_", m) @@ WithOpt("scale_", s)) : m \in Means, s \in Scales}

NumericFeatures == <<"InscClaimAmtReimbursed", "DeductibleAmtPaid">>
MixedFeatures == <<"Gender", "InscClaimAmtReimbursed">>

BundleOf(features, encoders, scaler) ==
    Obj(("selected_features" :> Arr(features))
        @@ WithOpt("label_encoders", encoders) @@ WithOpt("scaler", scaler))


\* preprocessing_bundle.json: absent, unreadable, not JSON, or a JSON text
Json(v) == [kind |-> "json", value |-> v]

GenderEntry(e) == Obj("Gender" :> e)
ScalerA == Obj(("mean_" :> Arr(<<Num(10), V_Null>>)) @@ ("scale_" :> Arr(<<Num(2), Num(0)>>)))
EntryAB2 == Obj(("mapping" :> Obj(MapAB)) @@ ("unknown_index" :> Num(2)))

Files ==
    { [kind |-> "missing"], [kind |-> "unreadable"], [kind |-> "malformed"],
      Json(V_Null), Json(EmptyObj),
      Json(Obj("selected_features" :> V_Null)), Json(Obj("selected_features" :> Arr(<<>>))),
      Json(Obj("scaler" :> ScalerA)) }
    \cup {Json(BundleOf(NumericFeatures, V_Undef, sc)) : sc \in { V_Undef, ScalerA,
                    Obj(("mean_" :> Arr(<<Num(0), Num(0)>>))
                        @@ ("scale_" :> Arr(<<Fin(1, 2), Num(1)>>))) }}
    \cup {Json(BundleOf(MixedFeatures, GenderEntry(e), sc)) :
            e \in {EntryAB2, Obj("mapping" :> Obj(MapAB @@ (S_UNK :> Num(4))))},
            sc \in {V_Undef, ScalerA}}

Rec2(k1, v1, k2, v2) == Obj((k1 :> v1) @@ (k2 :> v2))

\* the records a caller sends in the lifecycle model: JSON objects and, as
\* an array element of a JSON body may be, null
Records ==
    { Rec2("InscClaimAmtReimbursed", Num(14), "DeductibleAmtPaid", Num(5)),
      Rec2("InscClaimAmtReimbursed", Num(1000), "gender", Str(S_C)),
      Rec2("InscClaimAmtReimbursed", MAX_VALUE, "Gender", Str(S_A)),
      V_Null }

RECURSIVE SeqsUpTo(_, _)
SeqsUpTo(S, n) ==
    IF n = 0 THEN {<<>>}
    ELSE LET shorter == SeqsUpTo(S, n - 1)
         IN  shorter \cup {Append(q, x) : q \in {r \in shorter : Len(r) = n - 1}, x \in S}

Batches == {Arr(q) : q \in SeqsUpTo(Records, MaxBatch)} \cup {EmptyObj}


(***************************************************************************)
(* The process: module load, then calls of transformBatch.                 *)
(***************************************************************************)
Init ==
    /\ pc = "boot"
    /\ file \in Files
    /\ BUNDLE = V_Undef
    /\ rows = V_Undef
    /\ X = NoCall
    /\ first = NoCall
    /\ arg = V_Undef
    /\ ret = NoCall

\* lines 80-88: existsSync, readFileSync, JSON.parse, then the three reads
\* of BUNDLE, the first of which throws on a bundle that is null
LoadFails(f) == f.kind # "json" \/ ~CanRead(f.value)

Load ==
    /\ pc = "boot"
    /\ pc' = IF LoadFails(file) THEN "crashed" ELSE "serving"
    /\ BUNDLE' = IF file.kind = "json" THEN file.value ELSE V_Undef
    /\ UNCHANGED <<file, rows, X, first, arg, ret>>

\* server.js calls transformBatch(rawRows) on each request (part_000:155,198)
TransformBatch ==
    /\ pc = "serving"
    /\ \E rs \in Batches :
        /\ rows' = rs
        /\ X' = transformBatch(rs)
    /\ UNCHANGED <<pc, file, BUNDLE, first, arg, ret>>

\* the caller keeps one record and the vector it got for it
Remember ==
    /\ first = NoCall
    /\ X.st = "returned"
    /\ \E i \in DOMAIN X.value : first' = [st |-> "kept", raw |-> rows.a[i], vec |-> X.value[i]]
    /\ UNCHANGED <<pc, file, BUNDLE, rows, X, arg, ret>>

Next == Load \/ TransformBatch \/ Remember

Spec == Init /\ [][Next]_vars


(***************************************************************************)
(* Properties of the process.                                              *)
(***************************************************************************)
\* a bundle as section 6 of the specification requires it: an object whose
\* selected_features is a non-empty list
ValidBundle(b) ==
    /\ b.t = "object"
    /\ IsArray(Get(b, "selected_features"))
    /\ Get(b, "selected_features").a # <<>>

IsRecord(v) == v.t = "object"
Called == pc = "serving" /\ X.st # "none"

\* C1: with a valid bundle, transformBatch on an array of n raw records (JSON
\* objects) returns n vectors, the i-th being the vector of the i-th record,
\* each as long as selected_features.
C1_BatchShape ==
    (Called /\ ValidBundle(BUNDLE) /\ IsArray(rows) /\ \A i \in DOMAIN rows.a : IsRecord(rows.a[i]))
    => /\ X.st = "returned"
       /\ Len(X.value) = Len(rows.a)
       /\ \A i \in DOMAIN rows.a :
            /\ Len(X.value[i]) = Len(Get(BUNDLE, "selected_features").a)
            /\ X.value[i] = transformOne(rows.a[i])

C1_Witness ==
    /\ Called /\ ValidBundle(BUNDLE) /\ IsArray(rows)
    /\ Len(rows.a) = 2 /\ IsRecord(rows.a[1]) /\ IsRecord(rows.a[2])
    /\ X.st = "returned" /\ Len(X.value) = 2
    /\ X.value[1] # X.value[2]
    /\ Len(X.value[1]) = 2


\* an entry the validator of section 4.4 rejects: not a number, NaN, an
\* infinity, or of magnitude above the threshold
BadEntry(v) == ~NumberIsFinite(v) \/ AbsGt(v, MismatchThreshold)

\* C2: every entry of every vector transformBatch returns is a finite number.
C2_EntriesFinite ==
    (Called /\ X.st = "returned")
    => \A i \in DOMAIN X.value : \A j \in DOMAIN X.value[i] : NumberIsFinite(X.value[i][j])

\* C5: a batch with a non-finite entry or one of magnitude above 50 is rejected
\* as a whole: transformBatch returns vectors only if no entry is bad.
C5_MismatchRejectsBatch ==
    (Called /\ X.st = "returned")
    => \A i \in DOMAIN X.value : \A j \in DOMAIN X.value[i] : ~BadEntry(X.value[i][j])

\* what the loader must refuse: no file, no JSON, or no non-empty selected_features
BadArtifact(f) == f.kind # "json" \/ ~CanRead(f.value) \/ ~ValidBundle(f.value)

\* C9: with a missing, unreadable or malformed artifact, or one without a
\* non-empty selected_features list, the process never serves and no call
\* returns vectors.
C9_BadArtifactNeverServes ==
    BadArtifact(file) => (pc # "serving" /\ X.st # "returned")

VectorBundles ==
    {BundleOf(NumericFeatures, V_Undef, sc) : sc \in Scalers \cup {V_Undef, V_Null}}
    \cup {BundleOf(MixedFeatures, GenderEntry(e), sc) :
            e \in {EntryAB2, Obj("mapping" :> Obj(MapAB @@ (S_Unknown :> Num(3))))},
            sc \in {V_Undef, ScalerA, Obj(("mean_" :> Arr(<<Num(1), Num(10)>>))
                                          @@ ("scale_" :> Arr(<<Num(2), Num(4)>>)))}}

VectorRecords ==
    { EmptyObj,
      Rec2("InscClaimAmtReimbursed", Num(14), "DeductibleAmtPaid", Num(5)),
      Rec2("InscClaimAmtReimbursed", Num(1000), "gender", Str(S_C)),
      Rec2("InscClaimAmtReimbursed", MAX_VALUE, "Gender", Str(S_A)),
      Rec2("claim_amount", Str(<<"$", "1", ",", "2", "0", "0", ".", "5", "0">>), "deductible_amount",
           Str(<<"7">>)),
      Rec2("InscClaimAmtReimbursed", Str(<<"a", "b", "c">>), "DeductibleAmtPaid", Fin(-3, 2)),
      Rec2("Gender", Str(S_B), "DeductibleAmtPaid", PInf),
      Rec2("Gender", V_Null, "InscClaimAmtReimbursed", Bool(TRUE)) }

InitVector ==
    /\ pc = "serving"
    /\ BUNDLE \in VectorBundles
    /\ file = Json(BUNDLE)
    /\ arg \in VectorRecords
    /\ ret = NoCall
    /\ rows = V_Undef
    /\ X = NoCall
    /\ first = NoCall

\* a call of the exported transformOne (lines 183-213)
Vectorize ==
    /\ pc = "serving"
    /\ ret.st = "none"
    /\ ret' = IF normalizeThrows(arg) THEN Threw("TypeError") ELSE Returned(transformOne(arg))
    /\ UNCHANGED <<pc, file, BUNDLE, rows, X, first, arg>>

NextVector == Vectorize

SpecVector == InitVector /\ [][NextVector]_vars

\* the scaler arrays as the bundle holds them
BundleScalerArray(name) ==
    IF "scaler" \in DOMAIN BUNDLE.p /\ BUNDLE.p["scaler"].t = "object"
       /\ name \in DOMAIN BUNDLE.p["scaler"].p
    THEN BUNDLE.p["scaler"].p[name] ELSE V_Undef

FiniteNumber(v) == v.t = "number" /\ v.k = "fin"
Ordinary(v) == FiniteNumber(v) /\ v.e = 0

\* r = (v - m) / s in exact arithmetic, for ordinary rationals
IsScaled(r, v, m, s) ==
    r.n * s.n * v.d * m.d = (v.n * m.d - m.n * v.d) * r.d * s.d

\* C4: the scaler is applied to the finished row, and only if mean_ and scale_
\* are both arrays as long as the row; then position i becomes
\* (value - mean_[i]) / scale_[i] where both are finite numbers and the scale
\* is not 0, and keeps its value elsewhere.  Without such arrays the row is
\* returned as built.  mean_ = [10, null], scale_ = [2, 0] turn [14, 5] into [2, 5].
C4_ScalingRule ==
    ret.st = "returned" =>
        LET pre == encodeRow(arg)
            mean == BundleScalerArray("mean_")
            scale == BundleScalerArray("scale_")
            applies == /\ mean.t = "array" /\ scale.t = "array"
                       /\ Len(mean.a) = Len(pre) /\ Len(scale.a) = Len(pre)
            scaled(i) == /\ applies
                         /\ FiniteNumber(mean.a[i]) /\ FiniteNumber(scale.a[i])
                         /\ scale.a[i].n # 0
        IN  /\ Len(ret.value) = Len(pre)
            /\ \A i \in DOMAIN pre :
                 IF scaled(i)
                 THEN /\ ret.value[i] = Div(Sub(pre[i], mean.a[i]), scale.a[i])
                      /\ (Ordinary(pre[i]) /\ Ordinary(mean.a[i]) /\ Ordinary(scale.a[i]))
                         => IsScaled(ret.value[i], pre[i], mean.a[i], scale.a[i])
                 ELSE ret.value[i] = pre[i]
            /\ (mean = Arr(<<Num(10), V_Null>>) /\ scale = Arr(<<Num(2), Num(0)>>)
                /\ pre = <<Num(14), Num(5)>>)
               => ret.value = <<Num(2), Num(5)>>

C4_Witness ==
    /\ ret.st = "returned"
    /\ BundleScalerArray("mean_") = Arr(<<Num(10), V_Null>>)
    /\ BundleScalerArray("scale_") = Arr(<<Num(2), Num(0)>>)
    /\ encodeRow(arg) = <<Num(14), Num(5)>>
    /\ ret.value = <<Num(2), Num(5)>>

(***************************************************************************)
(* The other two vectorizers on one record: transformOne of the first copy *)
(* of preprocess.js and buildVector of transformer.js.                     *)
(***************************************************************************)
TransformOneV1 ==
    /\ pc = "serving"
    /\ ret.st = "none"
    /\ ret' = [by |-> "transformOne_v1"] @@ Returned(transformOne_v1(arg))
    /\ UNCHANGED <<pc, file, BUNDLE, rows, X, first, arg>>

BuildVector ==
    /\ pc = "serving"
    /\ ret.st = "none"
    /\ ret' = [by |-> "buildVector"] @@ buildVector(arg)
    /\ UNCHANGED <<pc, file, BUNDLE, rows, X, first, arg>>

InitOthers ==
    /\ pc = "serving"
    /\ BUNDLE \in VectorBundles \cup {EmptyObj}
    /\ file = Json(BUNDLE)
    /\ arg \in VectorRecords \cup {V_Null}
    /\ ret = NoCall
    /\ rows = V_Undef
    /\ X = NoCall
    /\ first = NoCall

NextOthers == TransformOneV1 \/ BuildVector

SpecOthers == InitOthers /\ [][NextOthers]_vars

\* buildVector returns no row with a NaN entry or an entry of magnitude above 50
BuildVectorGuarded ==
    (ret.st = "returned" /\ ret.by = "buildVector")
        => \A i \in DOMAIN ret.value : ~isBad(ret.value[i])

\* buildVector rejects some record with the mismatch error, and lets some row through
BuildVectorRejects == ret.st = "threw" /\ ret.by = "buildVector" /\ ret.error # "TypeError"
BuildVectorAccepts ==
    ret.st = "returned" /\ ret.by = "buildVector" /\ ret.value # <<>>

\* without a feature list buildVector throws on every record
BuildVectorNeedsFeatures ==
    (ret.st # "none" /\ ret.by = "buildVector" /\ BUNDLE = EmptyObj)
        => ret.st = "threw" /\ ret.error = "TypeError"

\* the first copy of preprocess.js never throws, null record included
V1Accepts == ret.st = "returned" /\ ret.by = "transformOne_v1" /\ arg = V_Null

(***************************************************************************)
(* encodeCategorical on one value, over the encoder entries.               *)
(***************************************************************************)
EncodeBundles ==
    {Obj("label_encoders" :> GenderEntry(e)) : e \in Entries}

EncodeValues ==
    { V_Null, V_Undef, Str(<<>>), Str(S_A), Str(S_B), Str(S_C), Str(S_Unknown), Str(S_UNK),
      Str(<<" ", "A">>), Num(1), Bool(FALSE) }

InitEncode ==
    /\ pc = "serving"
    /\ BUNDLE \in EncodeBundles
    /\ file = Json(BUNDLE)
    /\ arg \in EncodeValues
    /\ ret = NoCall
    /\ rows = V_Undef
    /\ X = NoCall
    /\ first = NoCall

\* a call encodeCategorical("Gender", arg) (lines 98-112)
Encode ==
    /\ pc = "serving"
    /\ ret.st = "none"
    /\ ret' = Returned(encodeCategorical("Gender", arg))
    /\ UNCHANGED <<pc, file, BUNDLE, rows, X, first, arg>>

NextEncode == Encode

SpecEncode == InitEncode /\ [][NextEncode]_vars

\* the entry of the column, its mapping and its declared unknown_index
TheEntry == BUNDLE.p["label_encoders"].p["Gender"].p
TheMapping == IF "mapping" \in DOMAIN TheEntry THEN TheEntry["mapping"].p ELSE EmptyMap
DeclaresUnknownIndex ==
    "unknown_index" \in DOMAIN TheEntry /\ TheEntry["unknown_index"].t = "number"

\* C3: the fallback order of the encoder: null, undefined and "" are looked up
\* as "Unknown", any other value as its string; a key of the mapping gives its
\* index; else unknown_index if the entry declares one; else the index of
\* "__UNK__" if the mapping holds it; else 0.  With {A: 0, B: 1} and
\* unknown_index 2, "C" gives 2 and null gives the "Unknown" entry if there
\* is one, else 2.
C3_FallbackOrder ==
    ret.st = "returned" =>
        LET key == IF arg.t \in {"null", "undefined"} \/ arg = Str(<<>>)
                   THEN S_Unknown ELSE ToStr(arg)
        IN  /\ ret.value =
                 IF key \in DOMAIN TheMapping THEN TheMapping[key]
                 ELSE IF DeclaresUnknownIndex THEN TheEntry["unknown_index"]
                 ELSE IF S_UNK \in DOMAIN TheMapping THEN TheMapping[S_UNK]
                 ELSE Num(0)
            /\ (DeclaresUnknownIndex /\ TheEntry["unknown_index"] = Num(2))
               => /\ (TheMapping = MapAB /\ arg = Str(S_C)) => ret.value = Num(2)
                  /\ (TheMapping = MapAB /\ arg = V_Null) => ret.value = Num(2)
                  /\ (TheMapping = MapAB @@ (S_Unknown :> Num(3)) /\ arg = V_Null)
                     => ret.value = Num(3)

C3_Witness ==
    /\ ret.st = "returned"
    /\ DeclaresUnknownIndex
    /\ S_UNK \in DOMAIN TheMapping
    /\ arg = Str(S_C)
    /\ ret.value = Num(2)


(***************************************************************************)
(* onlyICD and onlyCPT on one text.                                        *)
(***************************************************************************)
MaxTextLen == 7

Alphabet == {"b", "2", ".", " "}

Texts ==
    {Str(q) : q \in SeqsUpTo(Alphabet, MaxTextLen)}
    \cup {Str(q) : q \in
    { <<"D", "i", "a", "g", ":", " ", "e", "1", "1", ".", "9", " ", "p", "r", "e", "s", "e", "n", "t">>,
      <<"c", "p", "t", " ", "9", "9", "2", "1", "3", " ", "b", "i", "l", "l", "e", "d">>,
      <<"A", "1", "2", "3", "4", "5">>,
      <<"B", "2">>,
      <<"_", "1", "2", "3", "4", "5", "_">>,
      <<"\t", "1", "2", "3", "4", "5", ":", "x", "7">>,
      <<"1", "2", "3", "4", "5", "6">> }}

InitText ==
    /\ pc = "serving"
    /\ BUNDLE = EmptyObj
    /\ file = Json(BUNDLE)
    /\ arg \in Texts
    /\ ret = NoCall
    /\ rows = V_Undef
    /\ X = NoCall
    /\ first = NoCall

Extracted(op, v) == [st |-> "returned", op |-> op, value |-> v]

\* onlyICD(arg) (line 94)
ExtractICD ==
    /\ ret.st = "none"
    /\ ret' = Extracted("icd", onlyICD(arg))
    /\ UNCHANGED <<pc, file, BUNDLE, rows, X, first, arg>>

\* onlyCPT(arg) (line 95)
ExtractCPT ==
    /\ ret.st = "none"
    /\ ret' = Extracted("cpt", onlyCPT(arg))
    /\ UNCHANGED <<pc, file, BUNDLE, rows, X, first, arg>>

NextText == ExtractICD \/ ExtractCPT

SpecText == InitText /\ [][NextText]_vars

Min(S) == CHOOSE x \in S : \A y \in S : x <= y
IsAlnumDot(c) == IsDigit(c) \/ IsLetter(c) \/ c = "."

\* the maximal stretch of alphanumeric-or-dot characters of s that starts at i
Stretch(s, i) ==
    LET ends == {j \in i - 1 .. Len(s) :
                    /\ \A k \in i .. j : IsAlnumDot(s[k])
                    /\ (j = Len(s) \/ ~IsAlnumDot(s[j + 1]))}
    IN  SubSeq(s, i, Min(ends))

\* positions where a letter is followed by `digits` digits
CodeStarts(s, digits) ==
    {i \in DOMAIN s : /\ i + digits <= Len(s)
                      /\ IsLetter(s[i])
                      /\ \A k \in i + 1 .. i + digits : IsDigit(s[k])}

\* C6: diagnosis-code extraction gives the uppercased first substring made of
\* a letter, two digits and then alphanumeric-or-dot characters, and the
\* literal "Unknown" when the text holds none.
C6_TwoDigitsOrUnknown ==
    (ret.st = "returned" /\ ret.op = "icd") =>
        LET s == arg.s
            starts == CodeStarts(s, 2)
        IN  ret.value = IF starts = {} THEN Str(S_Unknown)
                        ELSE Str(toUpperCase(Stretch(s, Min(starts))))

\* what line 94 does: one digit after the letter is enough, and the default is
\* uppercased with the match
C6_Observed ==
    (ret.st = "returned" /\ ret.op = "icd") =>
        LET s == arg.s
            starts == CodeStarts(s, 1)
        IN  ret.value = IF starts = {} THEN Str(toUpperCase(S_Unknown))
                        ELSE Str(toUpperCase(Stretch(s, Min(starts))))

\* runs of exactly five digits of s whose neighbours, where there are any,
\* are outside the class given
FiveDigitRuns(s, Inside(_)) ==
    {i \in DOMAIN s : /\ i + 4 <= Len(s)
                      /\ \A k \in i .. i + 4 : IsDigit(s[k])
                      /\ (i = 1 \/ ~Inside(s[i - 1]))
                      /\ (i + 4 = Len(s) \/ ~Inside(s[i + 5]))}

\* C7 as stated: the first run of exactly five digits between non-digits or
\* the ends of the text, "00000" when there is none.
C7_DigitBounded ==
    (ret.st = "returned" /\ ret.op = "cpt") =>
        LET runs == FiveDigitRuns(arg.s, IsDigit)
        IN  ret.value = IF runs = {} THEN Str(S_Zeros)
                        ELSE Str(SubSeq(arg.s, Min(runs), Min(runs) + 4))

\* C7, amended: the first run of exactly five digits whose neighbours are
\* neither letters, digits nor underscores (or the ends of the text), "00000"
\* when there is none.
C7_WordBounded ==
    (ret.st = "returned" /\ ret.op = "cpt") =>
        LET runs == FiveDigitRuns(arg.s, IsWordChar)
        IN  ret.value = IF runs = {} THEN Str(S_Zeros)
                        ELSE Str(SubSeq(arg.s, Min(runs), Min(runs) + 4))

\* a letter next to the run hides it; a space-bounded run is found
C7_Witness ==
    /\ ret.st = "returned" /\ ret.op = "cpt"
    /\ arg.s = <<"b", "2", "2", "2", "2", "2", " ">>
    /\ ret.value = Str(S_Zeros)


(***************************************************************************)
(* normalizeToTraining on one raw value.                                   *)
(***************************************************************************)
IdentityFields ==
    { "Provider", "AttendingPhysician", "OperatingPhysician", "OtherPhysician",
      "DiagnosisGroupCode", "Gender", "Race", "RenalDiseaseIndicator", "State", "County" }
DiagnosisFields ==
    { "ClmAdmitDiagnosisCode", "ClmDiagnosisCode_1", "ClmDiagnosisCode_2", "ClmDiagnosisCode_3",
      "ClmDiagnosisCode_4", "ClmDiagnosisCode_5", "ClmDiagnosisCode_6", "ClmDiagnosisCode_7",
      "ClmDiagnosisCode_8", "ClmDiagnosisCode_9", "ClmDiagnosisCode_10" }
ProcedureFields ==
    { "ClmProcedureCode_1", "ClmProcedureCode_2", "ClmProcedureCode_3", "ClmProcedureCode_4",
      "ClmProcedureCode_5" }
CoverageFields == {"NoOfMonths_PartACov", "NoOfMonths_PartBCov"}
ChronicFields ==
    { "ChronicCond_Alzheimer", "ChronicCond_Heartfailure", "ChronicCond_KidneyDisease",
      "ChronicCond_Cancer", "ChronicCond_ObstrPulmonary", "ChronicCond_Depression",
      "ChronicCond_Diabetes", "ChronicCond_IschemicHeart", "ChronicCond_Osteoporasis",
      "ChronicCond_rheumatoidarthritis", "ChronicCond_stroke" }
AmountFields ==
    { "InscClaimAmtReimbursed", "DeductibleAmtPaid", "IPAnnualReimbursementAmt",
      "IPAnnualDeductibleAmt", "OPAnnualReimbursementAmt", "OPAnnualDeductibleAmt" }
CountFields == {"AgeAtClaim", "ClaimDuration", "ClaimsPerProvider", "ClaimsPerBene"}
NumericFields == CoverageFields \cup ChronicFields \cup AmountFields \cup CountFields
CanonicalFields == IdentityFields \cup DiagnosisFields \cup ProcedureFields \cup NumericFields

\* the caller-facing names and the canonical field each stands in for
Aliases ==
    { <<"provider_id", "Provider">>, <<"diagnosis_code", "ClmDiagnosisCode_1">>,
      <<"procedure_code", "ClmProcedureCode_1">>, <<"service_location", "DiagnosisGroupCode">>,
      <<"claim_amount", "InscClaimAmtReimbursed">>, <<"referring_physician", "AttendingPhysician">>,
      <<"deductible_amount", "DeductibleAmtPaid">>, <<"gender", "Gender">>, <<"race", "Race">>,
      <<"renal", "RenalDiseaseIndicator">>, <<"state", "State">>, <<"county", "County">>,
      <<"patient_age", "AgeAtClaim">>, <<"service_frequency", "ClaimDuration">> }

FieldValues ==
    { V_Null, Str(<<>>), Str(<<" ">>), Str(<<"a", "b", "c">>), Str(<<" ", "1", "2", " ">>),
      Str(<<"$", "1", ",", "2", "0", "0", ".", "5", "0">>), Str(<<"e", "1", "1", ".", "9">>),
      Str(<<"9", "9", "2", "1", "3">>), Str(S_Infinity),
      Num(0), Num(7), Fin(-3, 2), PInf, Bool(TRUE), Bool(FALSE), EmptyObj, Arr(<<>>),
      Arr(<<Num(5)>>) }
PairValues == {V_Null, Str(<<>>), Str(<<"a", "b", "c">>), Num(0), Num(7)}

NormRecords ==
    {EmptyObj}
    \cup {Obj(k :> v) : k \in CanonicalFields \cup {a[1] : a \in Aliases}, v \in FieldValues}
    \cup {Obj(k :> MAX_VALUE) : k \in NumericFields}
    \cup {Rec2(a[2], v, a[1], w) : a \in Aliases, v \in PairValues, w \in PairValues}
    \cup {V_Null, Num(7), Str(<<"a", "b", "c">>), Bool(TRUE), Arr(<<>>)}

InitNormalize ==
    /\ pc = "serving"
    /\ BUNDLE = EmptyObj
    /\ file = Json(BUNDLE)
    /\ arg \in NormRecords
    /\ ret = NoCall
    /\ rows = V_Undef
    /\ X = NoCall
    /\ first = NoCall

\* normalizeToTraining(arg), as transformOne calls it on each element of the
\* batch (line 184)
Normalize ==
    /\ ret.st = "none"
    /\ ret' = IF normalizeThrows(arg) THEN Threw("TypeError")
              ELSE Returned(normalizeToTraining(arg))
    /\ UNCHANGED <<pc, file, BUNDLE, rows, X, first, arg>>

NextNormalize == Normalize

SpecNormalize == InitNormalize /\ [][NextNormalize]_vars

Defined(v) == v.t # "undefined"
\* arg has neither the field nor a caller-facing name for it
Absent(f) ==
    /\ arg.t = "object"
    /\ f \notin DOMAIN arg.p
    /\ \A a \in Aliases : a[2] = f => a[1] \notin DOMAIN arg.p
    /\ (f = "ClmAdmitDiagnosisCode" =>
            {"ClmDiagnosisCode_1", "diagnosis_code"} \cap DOMAIN arg.p = {})

\* C8: normalization never raises, whatever JSON value the batch holds; every
\* canonical field of the result is defined; a numeric field is a finite
\* number; an absent flag or amount is 0, an absent coverage count 12, an
\* absent identity or code field "Unknown".
C8_NormalizeTotal ==
    /\ ret.st # "threw"
    /\ ret.st = "returned" =>
        /\ DOMAIN ret.value = CanonicalFields
        /\ \A f \in CanonicalFields : Defined(ret.value[f])
        /\ \A f \in NumericFields : FiniteNumber(ret.value[f])
        /\ \A f \in ChronicFields \cup AmountFields : Absent(f) => ret.value[f] = Num(0)
        /\ \A f \in CoverageFields : Absent(f) => ret.value[f] = Num(12)
        /\ \A f \in IdentityFields \cup DiagnosisFields \cup ProcedureFields :
             Absent(f) => ret.value[f] = Str(S_Unknown)

\* what lines 115-180 do: a TypeError on null and on no other JSON value; a result with every field defined and every numeric field finite,
\* with the defaults of C8 except that an absent first diagnosis code (and
\* the admit code that copies it) is "UNKNOWN" and an absent first procedure
\* code "00000"
C8_Observed ==
    /\ ret.st # "none" => (ret.st = "threw" <=> arg.t = "null")
    /\ ret.st = "returned" =>
        /\ DOMAIN ret.value = CanonicalFields
        /\ \A f \in CanonicalFields : Defined(ret.value[f])
        /\ \A f \in NumericFields : FiniteNumber(ret.value[f])
        /\ \A f \in ChronicFields \cup AmountFields : Absent(f) => ret.value[f] = Num(0)
        /\ \A f \in CoverageFields : Absent(f) => ret.value[f] = Num(12)
        /\ \A f \in (IdentityFields \cup DiagnosisFields \cup ProcedureFields)
                     \ {"ClmDiagnosisCode_1", "ClmAdmitDiagnosisCode", "ClmProcedureCode_1"} :
             Absent(f) => ret.value[f] = Str(S_Unknown)
        /\ Absent("ClmDiagnosisCode_1") => ret.value["ClmDiagnosisCode_1"] = Str(toUpperCase(S_Unknown))
        /\ Absent("ClmAdmitDiagnosisCode")
             => ret.value["ClmAdmitDiagnosisCode"] = Str(toUpperCase(S_Unknown))
        /\ Absent("ClmProcedureCode_1") => ret.value["ClmProcedureCode_1"] = Str(S_Zeros)



(***************************************************************************)
(* The encode-and-scale cores of the three vectorizers on one normalized   *)
(* record: v1 transformOne (lines 33-61, which has no normalizer), the     *)
(* loop and scaling of v2 transformOne (lines 186-212), and the row and    *)
(* guard of buildVector (lines 323-335).                                   *)
(***************************************************************************)
CoreScalers ==
    { V_Undef,
      Obj(("mean_" :> Arr(<<V_Null, Num(10)>>)) @@ ("scale_" :> Arr(<<V_Null, Num(2)>>))),
      Obj(("mean_" :> Arr(<<Num(1), Num(10)>>)) @@ ("scale_" :> Arr(<<Num(2), Num(2)>>))),
      Obj(("mean_" :> Arr(<<V_Null, V_Null>>)) @@ ("scale_" :> Arr(<<V_Null, V_Null>>))),
      Obj(("mean_" :> Arr(<<V_Null, Num(10)>>)) @@ ("scale_" :> Arr(<<V_Null, Num(0)>>))),
      Obj(("mean_" :> Arr(<<V_Null>>)) @@ ("scale_" :> Arr(<<V_Null>>))),
      Obj(("mean_" :> Arr(<<V_Null>>)) @@ ("scale_" :> Arr(<<V_Null, Num(2)>>))) }

CoreBundles ==
    {BundleOf(MixedFeatures, GenderEntry(e), sc) : e \in Entries, sc \in CoreScalers}

\* normalized records: what the v2 normalizer returns
CoreRecords ==
    {Obj(normalizeToTraining(raw)) : raw \in
    { EmptyObj,
      Rec2("Gender", Str(S_A), "InscClaimAmtReimbursed", Num(14)),
      Rec2("Gender", Str(S_B), "InscClaimAmtReimbursed", Num(-2)),
      Rec2("Gender", Str(S_C), "InscClaimAmtReimbursed", Num(14)),
      Rec2("Gender", Str(S_C), "InscClaimAmtReimbursed", Num(1000)) }}

NoCores == [v1 |-> NoCall, v2 |-> NoCall, bv |-> NoCall]

InitCore ==
    /\ pc = "serving"
    /\ BUNDLE \in CoreBundles
    /\ file = Json(BUNDLE)
    /\ arg \in CoreRecords
    /\ ret = NoCores
    /\ rows = V_Undef
    /\ X = NoCall
    /\ first = NoCall

CoreV1 ==
    /\ ret.v1.st = "none"
    /\ ret' = [ret EXCEPT !.v1 = Returned(transformOne_v1(arg))]
    /\ UNCHANGED <<pc, file, BUNDLE, rows, X, first, arg>>

CoreV2 ==
    /\ ret.v2.st = "none"
    /\ ret' = [ret EXCEPT !.v2 = Returned(scaleRow(encodeNormalized(arg.p)))]
    /\ UNCHANGED <<pc, file, BUNDLE, rows, X, first, arg>>

CoreBuildVector ==
    /\ ret.bv.st = "none"
    /\ ret' = [ret EXCEPT !.bv = guardRow(buildRowOf(arg.p))]
    /\ UNCHANGED <<pc, file, BUNDLE, rows, X, first, arg>>

NextCore == CoreV1 \/ CoreV2 \/ CoreBuildVector

SpecCore == InitCore /\ [][NextCore]_vars

AllCoresReturned ==
    ret.v1.st = "returned" /\ ret.v2.st = "returned" /\ ret.bv.st = "returned"

\* C11: on the same bundle and the same normalized record the cores of v1
\* transformOne, v2 transformOne and buildVector return the same vector
\* whenever the guard of buildVector lets the row through.
C11_CoresAgree ==
    AllCoresReturned => (ret.v1.value = ret.v2.value /\ ret.v2.value = ret.bv.value)

\* the three ways the cores part, each on a row the guard lets through
CoreEntry == Get(Get(BUNDLE, "label_encoders"), "Gender")
CoreParts_Sentinel ==
    /\ AllCoresReturned
    /\ Get(BUNDLE, "scaler") = V_Undef
    /\ CoreEntry = Obj("mapping" :> Obj(MapAB @@ (S_UNK :> Num(4))))
    /\ arg.p["Gender"] = Str(S_C)
    /\ ret.v1.value[1] = Num(0) /\ ret.v2.value[1] = Num(4) /\ ret.bv.value[1] = Num(4)
CoreParts_NullIndex ==
    /\ AllCoresReturned
    /\ Get(BUNDLE, "scaler") = V_Undef
    /\ CoreEntry = Obj(("mapping" :> Obj(MapAB)) @@ ("unknown_index" :> V_Null))
    /\ arg.p["Gender"] = Str(S_C)
    /\ ret.v1.value[1] = Num(0) /\ ret.v2.value[1] = Num(0) /\ ret.bv.value[1] = V_Null
CoreParts_ScaledIndex ==
    /\ AllCoresReturned
    /\ Get(Get(BUNDLE, "scaler"), "mean_") = Arr(<<Num(1), Num(10)>>)
    /\ CoreEntry = EntryAB2
    /\ arg.p["Gender"] = Str(S_A)
    /\ ret.v1.value[1] = Fin(-1, 2) /\ ret.v2.value[1] = Fin(-1, 2) /\ ret.bv.value[1] = Num(0)

\* where they agree: an entry with a mapping, an unknown_index that is a
\* number or absent, no sentinel key standing in for a missing unknown_index,
\* and a scaler that is absent or leaves the categorical position alone and
\* covers the whole row.
CoreAligned ==
    /\ Truthy(Get(CoreEntry, "mapping"))
    /\ Get(CoreEntry, "unknown_index").t # "null"
    /\ (HasOwn(Get(CoreEntry, "mapping"), S_UNK) => HasKey(CoreEntry, "unknown_index"))
    /\ \/ Get(BUNDLE, "scaler") = V_Undef
       \/ /\ scalerApplies(2)
          /\ Get(SCALER, "mean_").a[1] = V_Null
          /\ Get(SCALER, "scale_").a[1] = V_Null
C11_Observed == (AllCoresReturned /\ CoreAligned) => C11_CoresAgree

(***************************************************************************)
(* Alias precedence in normalizeToTraining (lines 117-177), read off the   *)
(* results of SpecNormalize.                                               *)
(***************************************************************************)
IsEmptyText(v) == v.t = "string" /\ v.s = <<>>
\* the value says something: it is there, not null and not ""
Yields(v) == ~Nullish(v) /\ ~IsEmptyText(v)

TextAliases == {"provider_id", "service_location", "referring_physician"}

\* the canonical value as the field takes it
Canon(f, c) == IF f \in NumericFields THEN toNum(c) ELSE c

\* the alias value as the field takes it
FromAlias(a, v) ==
    IF a \in TextAliases THEN trim(v)
    ELSE IF a = "diagnosis_code" THEN onlyICD(v)
    ELSE IF a = "procedure_code" THEN onlyCPT(v)
    ELSE IF a = "claim_amount" THEN toNum(Str(StripNonNumeric(ToStr(v))))
    ELSE IF a = "service_frequency" THEN toNum(MathMax(Num(1), ToNumber(v)))
    ELSE IF a \in {"deductible_amount", "patient_age"} THEN toNum(v)
    ELSE v

AliasYields(a, v) ==
    /\ Yields(v)
    /\ a \in TextAliases => ~IsEmptyText(trim(v))
    /\ a \in {"diagnosis_code", "procedure_code"} => FromAlias(a, v) # FromAlias(a, V_Undef)

\* the default of a field: what the empty record gets
DefaultOf(f) == normalizeToTraining(EmptyObj)[f]

\* the values the precedence allows field f with alias a, an empty canonical
\* or alias value being allowed to count either as a value or as none
AllowedBy(a, f) ==
    LET c == Get(arg, f)
        v == Get(arg, a)
        asEmpty == (IF IsEmptyText(c) THEN {Canon(f, c)} ELSE {})
    IN  IF Yields(c) THEN {Canon(f, c)}
        ELSE IF AliasYields(a, v) THEN {FromAlias(a, v)} \cup asEmpty
        ELSE {DefaultOf(f)} \cup asEmpty \cup (IF Nullish(v) THEN {} ELSE {FromAlias(a, v)})

\* C12: for every canonical field with a caller-facing alias the canonical
\* value is used if present, else the alias value if present, else the
\* default; a canonical "" beside a non-empty alias does not get the default.
C12_AliasPrecedence ==
    ret.st = "returned" =>
        \A p \in Aliases :
            /\ ret.value[p[2]] \in AllowedBy(p[1], p[2])
            /\ (IsEmptyText(Get(arg, p[2])) /\ AliasYields(p[1], Get(arg, p[1]))
                /\ p[2] \notin NumericFields)
               => ret.value[p[2]] # DefaultOf(p[2])

\* what lines 117-131 do: Provider and DiagnosisGroupCode take the default
\* for every falsy canonical value ("", 0, false) without looking at the
\* alias; every other aliased field follows the precedence.
OrDefaultFields == {"Provider", "DiagnosisGroupCode"}
C12_Observed ==
    ret.st = "returned" =>
        \A p \in Aliases :
            IF p[2] \in OrDefaultFields /\ ~Nullish(Get(arg, p[2])) /\ ~Truthy(Get(arg, p[2]))
            THEN ret.value[p[2]] = Str(S_Unknown)
            ELSE ret.value[p[2]] \in AllowedBy(p[1], p[2])

C12_ObservedCase ==
    /\ ret.st = "returned"
    /\ arg = Rec2("Provider", Str(<<>>), "provider_id", Str(<<"a", "b", "c">>))
    /\ ret.value["Provider"] = Str(S_Unknown)
====
